---- MODULE Spec2Model ----
(***************************************************************************)
(* SimWindow (src/SimWindow.py): the camera (zoom, offset, inertial zoom,  *)
(* drag, sliders), the world/screen transforms and the bridge detection of *)
(* _draw_bridge_intersections.                                             *)
(*                                                                         *)
(* Numbers.  Segment coordinates are Python ints.  The parameters t1, t2   *)
(* and the emitted crossing point are exact fractions <<n, d>> in lowest   *)
(* terms with d > 0 (the Frac operators).  The camera's reals (zoom,       *)
(* zoom_speed, the offsets, the slider values) are exact rationals over    *)
(* arbitrary precision integers (the Q, Z and N operators): the decay by   *)
(* 1.05 multiplies the denominator by 21 every frame, far beyond machine   *)
(* integers.  Floating point rounding is not modelled: every statement     *)
(* below is about the arithmetic of the code carried out exactly.          *)
(***************************************************************************)
EXTENDS Integers, Sequences, FiniteSets, TLC

VARIABLES
    zoom,          \* self.zoom
    offset,        \* self.offset, a pair
    old_offset,    \* self.old_offset, a pair
    is_dragging,   \* self.is_dragging
    zoom_speed,    \* self.zoom_speed
    slider,        \* the values of ZoomSlider, OffsetXSlider, OffsetYSlider
    camFault,      \* TRUE once a camera handler raised ZeroDivisionError
    dragStart,     \* history: self.offset when the current drag began
    lastWheel,     \* history: app_data of the last wheel event taken
    inertiaFrames, \* history: frames since then that found zoom_speed != 1
    wheelCount,    \* wheel events taken so far
    sliderMoves,   \* slider callbacks so far
    dragCount,     \* drag events so far
    segments,      \* self.segments: the list of segments
    bridges,       \* the local list `bridges` of _draw_bridge_intersections
    bridgeFault,   \* TRUE when the pass raised (a division by zero)
    pc,            \* "idle"; "ready": bridge pass to run; "drawn": after it
    canvas,        \* (_canvas_width, _canvas_height)
    world,         \* a world point handed to _to_screen
    screen,        \* its image under _to_screen
    back,          \* the image of `screen` under _to_world
    tpc            \* "idle"; "world", "screen", "back": transform steps done

cvars == <<zoom, offset, old_offset, is_dragging, zoom_speed, slider, camFault>>
hvars == <<dragStart, lastWheel, inertiaFrames, wheelCount, sliderMoves, dragCount>>
bvars == <<segments, bridges, bridgeFault, pc>>
tvars == <<canvas, world, screen, back, tpc>>

vars == <<cvars, hvars, bvars, tvars>>

(***************************************************************************)
(* Exact fractions over machine integers (bridge geometry).                *)
(***************************************************************************)
Abs(n) == IF n < 0 THEN -n ELSE n

RECURSIVE Gcd(_, _)
Gcd(a, b) == IF b = 0 THEN a ELSE Gcd(b, a % b)

\* n/d in lowest terms, d > 0.
Frac(n, d) ==
    LET g == Gcd(Abs(n), Abs(d))
        s == IF d < 0 THEN -1 ELSE 1
    IN  <<(s * n) \div g, (s * d) \div g>>

FracInt(k) == <<k, 1>>
FracMul(a, b) == Frac(a[1] * b[1], a[2] * b[2])
FracAdd(a, b) == Frac(a[1] * b[2] + b[1] * a[2], a[2] * b[2])
FracLt(a, b) == a[1] * b[2] < b[1] * a[2]
FracLe(a, b) == a[1] * b[2] <= b[1] * a[2]

(***************************************************************************)
(* Arbitrary precision naturals: little-endian sequences of limbs in base  *)
(* NBase, no leading zero limb; zero is the empty sequence.                *)
(***************************************************************************)
NBase == 100 * 100

NLimb(a, i) == IF i <= Len(a) THEN a[i] ELSE 0

RECURSIVE NFromInt(_)
NFromInt(n) == IF n = 0 THEN <<>> ELSE <<n % NBase>> \o NFromInt(n \div NBase)

RECURSIVE NTrim(_)
NTrim(a) ==
    IF a # <<>> /\ a[Len(a)] = 0 THEN NTrim(SubSeq(a, 1, Len(a) - 1)) ELSE a

RECURSIVE NAddFrom(_, _, _, _)
NAddFrom(a, b, i, c) ==
    IF i > Len(a) /\ i > Len(b)
    THEN IF c = 0 THEN <<>> ELSE <<c>>
    ELSE LET t == NLimb(a, i) + NLimb(b, i) + c
         IN  <<t % NBase>> \o NAddFrom(a, b, i + 1, t \div NBase)

NAdd(a, b) == NAddFrom(a, b, 1, 0)

\* a - b for a >= b.
RECURSIVE NSubFrom(_, _, _, _)
NSubFrom(a, b, i, c) ==
    IF i > Len(a) THEN <<>>
    ELSE LET t == a[i] - NLimb(b, i) - c
         IN  IF t < 0 THEN <<t + NBase>> \o NSubFrom(a, b, i + 1, 1)
             ELSE <<t>> \o NSubFrom(a, b, i + 1, 0)

NSub(a, b) == NTrim(NSubFrom(a, b, 1, 0))

RECURSIVE NCmpFrom(_, _, _)
NCmpFrom(a, b, i) ==
    IF i = 0 THEN 0
    ELSE IF a[i] < b[i] THEN -1
    ELSE IF a[i] > b[i] THEN 1
    ELSE NCmpFrom(a, b, i - 1)

\* -1, 0, 1 as a < b, a = b, a > b.
NCmp(a, b) ==
    IF Len(a) < Len(b) THEN -1
    ELSE IF Len(a) > Len(b) THEN 1
    ELSE NCmpFrom(a, b, Len(a))

\* a * k for 0 <= k < NBase.
RECURSIVE NScaleFrom(_, _, _, _)
NScaleFrom(a, k, i, c) ==
    IF i > Len(a)
    THEN IF c = 0 THEN <<>> ELSE <<c>>
    ELSE LET t == a[i] * k + c
         IN  <<t % NBase>> \o NScaleFrom(a, k, i + 1, t \div NBase)

NScale(a, k) == IF k = 0 THEN <<>> ELSE NScaleFrom(a, k, 1, 0)

NShift(a) == IF a = <<>> THEN <<>> ELSE <<0>> \o a

RECURSIVE NMulFrom(_, _, _)
NMulFrom(a, b, i) ==
    IF i > Len(a) THEN <<>>
    ELSE NAdd(NScale(b, a[i]), NShift(NMulFrom(a, b, i + 1)))

NMul(a, b) == IF Len(a) <= Len(b) THEN NMulFrom(a, b, 1) ELSE NMulFrom(b, a, 1)

(***************************************************************************)
(* Integers [s, m]: sign s in {-1, 0, 1} and magnitude m.                  *)
(***************************************************************************)
ZMake(s, m) == IF m = <<>> THEN [s |-> 0, m |-> <<>>] ELSE [s |-> s, m |-> m]
ZFromInt(k) == ZMake(IF k < 0 THEN -1 ELSE 1, NFromInt(Abs(k)))
ZNeg(a) == [s |-> -a.s, m |-> a.m]
ZAbs(a) == [s |-> a.s * a.s, m |-> a.m]

ZAdd(a, b) ==
    IF a.s = 0 THEN b
    ELSE IF b.s = 0 THEN a
    ELSE IF a.s = b.s THEN [s |-> a.s, m |-> NAdd(a.m, b.m)]
    ELSE LET c == NCmp(a.m, b.m)
         IN  IF c = 0 THEN [s |-> 0, m |-> <<>>]
             ELSE IF c > 0 THEN [s |-> a.s, m |-> NSub(a.m, b.m)]
             ELSE [s |-> b.s, m |-> NSub(b.m, a.m)]

ZSub(a, b) == ZAdd(a, ZNeg(b))
ZMul(a, b) == ZMake(a.s * b.s, NMul(a.m, b.m))
ZMulN(a, n) == ZMake(a.s, NMul(a.m, n))

\* -1, 0, 1 as a < b, a = b, a > b.
ZCmp(a, b) == ZSub(a, b).s

(***************************************************************************)
(* Rationals [n, d]: integer numerator n, natural denominator d > 0.  A     *)
(* value whose numerator and denominator fit one limb is kept in lowest    *)
(* terms; equality of values is QEq.                                       *)
(***************************************************************************)
QMake(n, d) ==
    IF n.s = 0 THEN [n |-> n, d |-> <<1>>]
    ELSE IF Len(n.m) = 1 /\ Len(d) = 1
    THEN LET g == Gcd(n.m[1], d[1])
         IN  [n |-> [s |-> n.s, m |-> <<n.m[1] \div g>>], d |-> <<d[1] \div g>>]
    ELSE [n |-> n, d |-> d]

\* p/q for machine integers p and q, q # 0.
QFrac(p, q) ==
    LET g == Gcd(Abs(p), Abs(q))
    IN  QMake(ZFromInt((IF q < 0 THEN -p ELSE p) \div g), NFromInt(Abs(q) \div g))

QInt(k) == QFrac(k, 1)

QSign(a) == a.n.s
QNeg(a) == [n |-> ZNeg(a.n), d |-> a.d]
QAbs(a) == [n |-> ZAbs(a.n), d |-> a.d]

QAdd(a, b) ==
    IF a.d = b.d THEN QMake(ZAdd(a.n, b.n), a.d)
    ELSE QMake(ZAdd(ZMulN(a.n, b.d), ZMulN(b.n, a.d)), NMul(a.d, b.d))

QSub(a, b) == QAdd(a, QNeg(b))
QMul(a, b) == QMake(ZMul(a.n, b.n), NMul(a.d, b.d))

\* a / b for b # 0.
QDiv(a, b) == QMake(ZMake(a.n.s * b.n.s, NMul(a.n.m, b.d)), NMul(a.d, b.n.m))

\* -1, 0, 1 as a < b, a = b, a > b.
QCmp(a, b) == ZCmp(ZMulN(a.n, b.d), ZMulN(b.n, a.d))
QEq(a, b) == QCmp(a, b) = 0
QLt(a, b) == QCmp(a, b) < 0

QPair(p, q) == <<QInt(p), QInt(q)>>
QPairEq(a, b) == QEq(a[1], b[1]) /\ QEq(a[2], b[2])

(***************************************************************************)
(* The camera: SimWindow.__init__ and the event handlers.                  *)
(***************************************************************************)
QZero == QInt(0)
QOne == QInt(1)

\* Line 141: 1 + 0.01*app_data
WheelSpeed(app_data) == QAdd(QOne, QMul(QFrac(1, 100), QInt(app_data)))

\* A decay that multiplies by 1.05 where line 146 divides.
DecayGrowing(speed) == QAdd(QOne, QMul(QSub(speed, QOne), QFrac(105, 100)))

\* Line 146: 1 + (self.zoom_speed - 1) / 1.05
Decay(speed) == QAdd(QOne, QDiv(QSub(speed, QOne), QFrac(105, 100)))

\* Line 147: abs(self.zoom_speed - 1) < clip, clip = 0.005
Clipped(speed) == QLt(QAbs(QSub(speed, QOne)), QFrac(5, 1000))

\* Lines 143-148, _update_inertial_zoom: the new (zoom, zoom_speed).
UpdateInertialZoom(z, speed) ==
    LET z1 == IF ~QEq(speed, QOne) THEN QMul(z, speed) ELSE z
        s1 == IF ~QEq(speed, QOne) THEN Decay(speed) ELSE speed
    IN  [zoom |-> z1, zoom_speed |-> IF Clipped(s1) THEN QOne ELSE s1]

\* Lines 131-134: old_offset + app_data/zoom per axis, for zoom # 0.
DragOffset(old, delta, z) ==
    << QAdd(old[1], QDiv(QInt(delta[1]), z)),
       QAdd(old[2], QDiv(QInt(delta[2]), z)) >>

\* Lines 124-125: the guard under which _mouse_down begins a drag.
BeginsDrag(dragging, hovered) == ~dragging /\ hovered

\* Lines 256-260, _to_screen, with (cw, ch) the canvas size.
ToScreen(p, cv, off, z) ==
    << QAdd(QFrac(cv[1], 2), QMul(QAdd(p[1], off[1]), z)),
       QAdd(QFrac(cv[2], 2), QMul(QAdd(p[2], off[2]), z)) >>

\* An inverse that adds the offset where lines 264-265 subtract it.
ToWorldAddingOffset(p, cv, off, z) ==
    << QAdd(QDiv(QSub(p[1], QFrac(cv[1], 2)), z), off[1]),
       QAdd(QDiv(QSub(p[2], QFrac(cv[2], 2)), z), off[2]) >>

\* Lines 262-266, _to_world, for zoom # 0.
ToWorld(p, cv, off, z) ==
    << QSub(QDiv(QSub(p[1], QFrac(cv[1], 2)), z), off[1]),
       QSub(QDiv(QSub(p[2], QFrac(cv[2], 2)), z), off[2]) >>

(***************************************************************************)
(* Bounds of the camera model.                                             *)
(***************************************************************************)
MaxWheel == 1
MaxSliderMoves == 1
MaxDrags == 1
\* In Spec, frames that find zoom_speed # 1 after one wheel event.
MaxInertiaFrames == 4

\* app_data of the wheel events: a notch up, a notch down, and the delta
\* that makes zoom_speed zero.
WheelDeltas == {1, -1, -100}

\* (dx, dy) of a drag event, in screen pixels.
DragDeltas == {<<30, -10>>}

\* What the user can do to the sliders: which one, and the value it is left at
\* (within min_value..max_value of lines 113-116).
SliderInputs ==
    { [item |-> "ZoomSlider", value |-> QFrac(1, 10)],
      [item |-> "ZoomSlider", value |-> QInt(100)],
      [item |-> "OffsetXSlider", value |-> QInt(100)],
      [item |-> "OffsetYSlider", value |-> QInt(-100)] }

(***************************************************************************)
(* Idle values of the parts a specification does not exercise.             *)
(***************************************************************************)
\* Lines 53-58 and 113-116: the state __init__ leaves.
CameraStart ==
    /\ zoom = QInt(2)
    /\ offset = QPair(-200, -100)
    /\ old_offset = QPair(0, 0)
    /\ is_dragging = FALSE
    /\ zoom_speed = QInt(1)
    /\ slider = [zoom |-> QInt(2), x |-> QInt(-200), y |-> QInt(-100)]
    /\ camFault = FALSE

HistoryStart ==
    /\ dragStart = QPair(0, 0)
    /\ lastWheel = 0
    /\ inertiaFrames = 0
    /\ wheelCount = 0
    /\ sliderMoves = 0
    /\ dragCount = 0

BridgeIdle ==
    /\ segments = <<>>
    /\ bridges = <<>>
    /\ bridgeFault = FALSE
    /\ pc = "idle"

\* Lines 71 and 166-167: the canvas is the main window, 1280-315 by 720-38.
TransformIdle ==
    /\ canvas = <<965, 682>>
    /\ world = QPair(0, 0)
    /\ screen = QPair(0, 0)
    /\ back = QPair(0, 0)
    /\ tpc = "idle"

(***************************************************************************)
(* The camera's handlers as actions.                                       *)
(***************************************************************************)
\* Lines 118-120, _set_offset_zoom, run after the user moved one slider.
SetOffsetZoom(input) ==
    /\ sliderMoves < MaxSliderMoves
    /\ LET moved == CASE input.item = "ZoomSlider" -> [slider EXCEPT !.zoom = input.value]
                      [] input.item = "OffsetXSlider" -> [slider EXCEPT !.x = input.value]
                      [] input.item = "OffsetYSlider" -> [slider EXCEPT !.y = input.value]
       IN  /\ slider' = moved
           /\ zoom' = moved.zoom
           /\ offset' = <<moved.x, moved.y>>
    /\ sliderMoves' = sliderMoves + 1
    /\ UNCHANGED <<old_offset, is_dragging, zoom_speed, camFault>>
    /\ UNCHANGED <<dragStart, lastWheel, inertiaFrames, wheelCount, dragCount>>
    /\ UNCHANGED <<bvars, tvars>>

\* Lines 123-127, _mouse_down; hovered = dpg.is_item_hovered("MainWindow").
MouseDown(hovered) ==
    /\ IF BeginsDrag(is_dragging, hovered)
       THEN /\ is_dragging' = TRUE
            /\ old_offset' = offset
       ELSE UNCHANGED <<is_dragging, old_offset>>
    /\ dragStart' = IF ~is_dragging /\ hovered THEN offset ELSE dragStart
    /\ UNCHANGED <<zoom, offset, zoom_speed, slider, camFault>>
    /\ UNCHANGED <<lastWheel, inertiaFrames, wheelCount, sliderMoves, dragCount>>
    /\ UNCHANGED <<bvars, tvars>>

\* Lines 129-134, _mouse_drag; app_data = (button, dx, dy).  With zoom = 0 the
\* division raises ZeroDivisionError before self.offset is assigned.
MouseDrag(delta) ==
    /\ dragCount < MaxDrags
    /\ dragCount' = dragCount + 1
    /\ IF is_dragging
       THEN IF QSign(zoom) = 0
            THEN /\ camFault' = TRUE
                 /\ UNCHANGED offset
            ELSE /\ offset' = DragOffset(old_offset, delta, zoom)
                 /\ UNCHANGED camFault
       ELSE UNCHANGED <<offset, camFault>>
    /\ UNCHANGED <<zoom, old_offset, is_dragging, zoom_speed, slider>>
    /\ UNCHANGED <<dragStart, lastWheel, inertiaFrames, wheelCount, sliderMoves>>
    /\ UNCHANGED <<bvars, tvars>>

\* Lines 136-137, _mouse_release.
MouseRelease ==
    /\ is_dragging' = FALSE
    /\ UNCHANGED <<zoom, offset, old_offset, zoom_speed, slider, camFault>>
    /\ UNCHANGED <<hvars, bvars, tvars>>

\* Lines 139-141, _mouse_wheel, with the main window hovered.
MouseWheel(app_data) ==
    /\ wheelCount < MaxWheel
    /\ wheelCount' = wheelCount + 1
    /\ zoom_speed' = WheelSpeed(app_data)
    /\ lastWheel' = app_data
    /\ inertiaFrames' = 0
    /\ UNCHANGED <<zoom, offset, old_offset, is_dragging, slider, camFault>>
    /\ UNCHANGED <<dragStart, sliderMoves, dragCount>>
    /\ UNCHANGED <<bvars, tvars>>

\* Lines 332-335 and 187-190, _render_loop: the inertia step, then the sliders
\* are set to the camera's values.  The drawing that follows reads the camera
\* and writes only the canvas.
RenderLoop ==
    /\ LET r == UpdateInertialZoom(zoom, zoom_speed)
       IN  /\ zoom' = r.zoom
           /\ zoom_speed' = r.zoom_speed
           /\ slider' = [zoom |-> r.zoom, x |-> offset[1], y |-> offset[2]]
    /\ inertiaFrames' = IF QEq(zoom_speed, QOne) THEN inertiaFrames
                        ELSE inertiaFrames + 1
    /\ UNCHANGED <<offset, old_offset, is_dragging, camFault>>
    /\ UNCHANGED <<dragStart, lastWheel, wheelCount, sliderMoves, dragCount>>
    /\ UNCHANGED <<bvars, tvars>>

\* RenderLoop, for a bounded number of frames while the zoom is in motion.
Frame ==
    /\ QEq(zoom_speed, QOne) \/ inertiaFrames < MaxInertiaFrames
    /\ RenderLoop

Init == CameraStart /\ HistoryStart /\ BridgeIdle /\ TransformIdle

Next ==
    \/ Frame
    \/ \E app_data \in WheelDeltas : MouseWheel(app_data)
    \/ \E input \in SliderInputs : SetOffsetZoom(input)
    \/ \E hovered \in BOOLEAN : MouseDown(hovered)
    \/ \E delta \in DragDeltas : MouseDrag(delta)
    \/ MouseRelease

Spec == Init /\ [][Next]_vars

\* A wheel event followed by frames alone, until the zoom is at rest.
InertiaNext ==
    \/ RenderLoop
    \/ \E app_data \in WheelDeltas : MouseWheel(app_data)

InertiaSpec == Init /\ [][InertiaNext]_vars

(***************************************************************************)
(* The transforms as steps: a world point is sent to the screen and back.  *)
(***************************************************************************)
TransformZooms == {QFrac(1, 10), QInt(2), QFrac(7, 3), QInt(100)}
TransformOffsets == {QPair(-200, -100), <<QFrac(1, 3), QInt(0)>>, QPair(100, 57)}
TransformCanvases == {<<965, 682>>, <<300, 201>>}
TransformPoints ==
    {QPair(0, 0), QPair(25, -50), <<QFrac(-7, 2), QFrac(1, 3)>>, QPair(250, 100)}

TransformInit ==
    /\ zoom \in TransformZooms
    /\ offset \in TransformOffsets
    /\ old_offset = QPair(0, 0)
    /\ is_dragging = FALSE
    /\ zoom_speed = QInt(1)
    /\ slider = [zoom |-> zoom, x |-> offset[1], y |-> offset[2]]
    /\ camFault = FALSE
    /\ HistoryStart
    /\ BridgeIdle
    /\ canvas \in TransformCanvases
    /\ world \in TransformPoints
    /\ screen = QPair(0, 0)
    /\ back = QPair(0, 0)
    /\ tpc = "world"

ToScreenStep ==
    /\ tpc = "world"
    /\ screen' = ToScreen(world, canvas, offset, zoom)
    /\ tpc' = "screen"
    /\ UNCHANGED <<canvas, world, back, cvars, hvars, bvars>>

ToWorldStep ==
    /\ tpc = "screen"
    /\ back' = ToWorld(screen, canvas, offset, zoom)
    /\ tpc' = "back"
    /\ UNCHANGED <<canvas, world, screen, cvars, hvars, bvars>>

TransformNext == ToScreenStep \/ ToWorldStep

TransformSpec == TransformInit /\ [][TransformNext]_vars

(***************************************************************************)
(* The camera: the claims.                                                 *)
(***************************************************************************)
\* C1 (as claimed): zoom is strictly positive in every reachable state.
C1_ZoomPositive == QSign(zoom) = 1

\* b^k by repeated squaring.
RECURSIVE NPow(_, _)
NPow(b, k) ==
    IF k = 0 THEN <<1>>
    ELSE LET h == NPow(b, k \div 2)
         IN  IF k % 2 = 0 THEN NMul(h, h) ELSE NScale(NMul(h, h), b)

\* k frames after a wheel event of delta w the zoom is still in motion:
\* |w/100| / 1.05^k >= 0.005, that is 2*|w|*20^k >= 21^k.
StillMoving(w, k) ==
    NCmp(NMul(NFromInt(2 * Abs(w)), NPow(20, k)), NPow(21, k)) >= 0

\* C7: after a wheel event of delta w, frame k + 1 finds zoom_speed different
\* from 1 only if |w/100|/1.05^k >= 0.005, so that at most
\* 1 + log(2|w|)/log(1.05) frames do (15 for |w| = 1, 109 for |w| = 100); and
\* a step that is not a wheel event, taken with zoom_speed = 1, leaves
\* zoom_speed at 1 and zoom as it is.
C7_InertiaConverges ==
    [][ /\ inertiaFrames' > 0 => lastWheel' # 0
        /\ inertiaFrames' > 1 => StillMoving(lastWheel', inertiaFrames' - 1)
        /\ (QEq(zoom_speed, QOne) /\ wheelCount' = wheelCount) =>
               (zoom_speed' = zoom_speed /\ zoom' = zoom) ]_vars

\* One notch up has come to rest, after exactly 15 moving frames.
C7_Witness ==
    /\ lastWheel = 1
    /\ inertiaFrames = 15
    /\ zoom_speed = QOne
    /\ QLt(QInt(2), zoom)

\* C8: for zoom > 0, _to_world undoes _to_screen exactly.
C8_TransformInverse ==
    (tpc = "back" /\ QSign(zoom) = 1) => QPairEq(back, world)

\* A point with fractional coordinates went to the screen and back at zoom 0.1.
C8_Witness ==
    /\ tpc = "back"
    /\ zoom = QFrac(1, 10)
    /\ world = <<QFrac(-7, 2), QFrac(1, 3)>>
    /\ ~QPairEq(screen, world)
    /\ QPairEq(back, world)

\* C10 (as claimed): a drag event while dragging leaves offset equal to the
\* offset at the start of the drag plus delta/zoom (zoom as read by that
\* event); one while not dragging leaves offset unchanged; and while dragging
\* old_offset is the offset captured when the drag began.
C10_DragFollowsStart ==
    [][ /\ \A delta \in DragDeltas :
              MouseDrag(delta) =>
                  IF is_dragging
                  THEN /\ QSign(zoom) # 0
                       /\ QEq(QMul(offset'[1], zoom),
                              QAdd(QMul(dragStart[1], zoom), QInt(delta[1])))
                       /\ QEq(QMul(offset'[2], zoom),
                              QAdd(QMul(dragStart[2], zoom), QInt(delta[2])))
                  ELSE offset' = offset
        /\ is_dragging' => old_offset' = dragStart' ]_vars

(***************************************************************************)
(* list.sort() on a list of ints, and range(lo, hi).                       *)
(***************************************************************************)
RECURSIVE Insert(_, _)
Insert(s, x) ==
    IF s = <<>> THEN <<x>>
    ELSE IF x <= Head(s) THEN <<x>> \o s
    ELSE <<Head(s)>> \o Insert(Tail(s), x)

RECURSIVE Sort(_)
Sort(s) == IF s = <<>> THEN <<>> ELSE Insert(Sort(Tail(s)), Head(s))

\* range(lo, hi): lo, lo+1, ..., hi-1; empty when hi <= lo.
PyRange(lo, hi) == [k \in 1..(hi - lo) |-> lo + k - 1]

\* p1.sort(); p1 = p1[1:3]
MiddleTwo(p1) == SubSeq(Sort(p1), 2, 3)

(***************************************************************************)
(* _draw_bridge_intersections, the body of the inner loop for one pair     *)
(* (si, sj) = (self.segments[i], self.segments[j]), i < j.                 *)
(***************************************************************************)
\* A test of the numerator where line 303 tests the determinant.
NonParallelByNumerator(det, dt1, dt2) == dt1 # 0

\* The test of line 303 that selects the dividing branch.
NonParallel(det, dt1, dt2) == det # 0

\* The test of line 306 alone, without the strict test of line 307.
IsBridgeClosed(t1, t2) ==
    /\ FracLe(FracInt(0), t1) /\ FracLe(t1, FracInt(1))
    /\ FracLe(FracInt(0), t2) /\ FracLe(t2, FracInt(1))

\* Lines 306-307: both parameters in [0,1], one of them strictly inside.
IsBridge(t1, t2) ==
    /\ FracLe(FracInt(0), t1) /\ FracLe(t1, FracInt(1))
    /\ FracLe(FracInt(0), t2) /\ FracLe(t2, FracInt(1))
    /\ \/ (FracLt(FracInt(0), t1) /\ FracLt(t1, FracInt(1)))
       \/ (FracLt(FracInt(0), t2) /\ FracLt(t2, FracInt(1)))

\* A point measured from the far endpoint of segment i.
CrossPointFromEnd(x0, y0, x1, y1, t1) ==
    << FracAdd(FracMul(FracInt(x1 - x0), t1), FracInt(x1)),
       FracAdd(FracMul(FracInt(y1 - y0), t1), FracInt(y1)) >>

\* Line 308: ((x1 - x0)*t1 + x0, (y1 - y0)*t1 + y0)
CrossPoint(x0, y0, x1, y1, t1) ==
    << FracAdd(FracMul(FracInt(x1 - x0), t1), FracInt(x0)),
       FracAdd(FracMul(FracInt(y1 - y0), t1), FracInt(y0)) >>

\* A range that leaves out its lower end as well.
OverlapRangeOpen(p1) == PyRange(p1[1] + 1, p1[2])

\* Lines 315-316 and 321-322: for k in range(p1[0], p1[1]).
OverlapRange(p1) == PyRange(p1[1], p1[2])

\* Lines 311-316: segment i has constant x.
VerticalBridges(si, sj) ==
    IF si[1][1] = si[2][1]
    THEN LET p1 == MiddleTwo(<<si[1][2], si[2][2], sj[1][2], sj[2][2]>>)
             ks == OverlapRange(p1)
         IN  [n \in 1..Len(ks) |-> <<FracInt(si[1][1]), FracInt(ks[n])>>]
    ELSE <<>>

\* Lines 317-322: segment i has constant y.
HorizontalBridges(si, sj) ==
    IF si[1][2] = si[2][2]
    THEN LET p1 == MiddleTwo(<<si[1][1], si[2][1], sj[1][1], sj[2][1]>>)
             ks == OverlapRange(p1)
         IN  [n \in 1..Len(ks) |-> <<FracInt(ks[n]), FracInt(si[1][2])>>]
    ELSE <<>>

\* Lines 292-322.  The result is the points appended for the pair and whether
\* the pair raised ZeroDivisionError (1/det with det = 0).
PairBridges(si, sj) ==
    LET x0 == si[1][1]
        x1 == si[2][1]
        y0 == si[1][2]
        y1 == si[2][2]
        dx == x0 - x1
        dy == y0 - y1
        X0 == sj[1][1]
        X1 == sj[2][1]
        Y0 == sj[1][2]
        Y1 == sj[2][2]
        dX == X0 - X1
        dY == Y0 - Y1
        det == dx * dY - dy * dX
        dt1 == dY * (x0 - X1) - dX * (y0 - Y1)
        dt2 == dx * (Y0 - y1) - dy * (X0 - x1)
    IN  IF NonParallel(det, dt1, dt2)
        THEN IF det = 0
             THEN [pts |-> <<>>, fault |-> TRUE]
             ELSE LET t1 == FracMul(Frac(1, det), FracInt(dt1))
                      t2 == FracMul(Frac(1, det), FracInt(dt2))
                  IN  [pts |-> IF IsBridge(t1, t2)
                               THEN <<CrossPoint(x0, y0, x1, y1, t1)>>
                               ELSE <<>>,
                       fault |-> FALSE]
        ELSE IF dt1 = 0 /\ dt2 = 0
             THEN [pts |-> VerticalBridges(si, sj) \o HorizontalBridges(si, sj),
                   fault |-> FALSE]
             ELSE [pts |-> <<>>, fault |-> FALSE]

\* Lines 291-322: the inner loop, j = from .. len-1 (1-based here).
RECURSIVE InnerLoop(_, _, _)
InnerLoop(segs, i, j) ==
    IF j > Len(segs) THEN [pts |-> <<>>, fault |-> FALSE]
    ELSE LET here == PairBridges(segs[i], segs[j])
             rest == InnerLoop(segs, i, j + 1)
         IN  IF here.fault THEN here
             ELSE [pts |-> here.pts \o rest.pts, fault |-> rest.fault]

\* Lines 282-322: the outer loop; the result is the list `bridges`.
RECURSIVE OuterLoop(_, _)
OuterLoop(segs, i) ==
    IF i > Len(segs) THEN [pts |-> <<>>, fault |-> FALSE]
    ELSE LET here == InnerLoop(segs, i, i + 1)
             rest == OuterLoop(segs, i + 1)
         IN  IF here.fault THEN here
             ELSE [pts |-> here.pts \o rest.pts, fault |-> rest.fault]

DrawBridges(segs) == OuterLoop(segs, 1)

(***************************************************************************)
(* The bridge pass as a step: inputs drawn in BridgeInit.                  *)
(***************************************************************************)
MaxCoord == 3

GridPoints == {<<x, y>> : x \in 0..MaxCoord, y \in 0..MaxCoord}
GridSegments == GridPoints \X GridPoints

\* The pairs spelled out in the specification's examples.
ExamplePairs ==
    { << <<<<0, 0>>, <<10, 0>>>>, <<<<5, 0>>, <<15, 0>>>> >>,
      << <<<<0, 0>>, <<10, 10>>>>, <<<<0, 10>>, <<10, 0>>>> >>,
      << <<<<0, 0>>, <<10, 0>>>>, <<<<0, 5>>, <<10, 5>>>> >>,
      << <<<<3, 3>>, <<3, 3>>>>, <<<<0, 0>>, <<10, 10>>>> >> }

BridgeInit ==
    /\ segments \in {<<a, b>> : a \in GridSegments, b \in GridSegments}
                     \cup ExamplePairs
    /\ bridges = <<>>
    /\ bridgeFault = FALSE
    /\ pc = "ready"
    /\ CameraStart /\ HistoryStart /\ TransformIdle

DrawBridgeIntersections ==
    /\ pc = "ready"
    /\ LET r == DrawBridges(segments)
       IN  /\ bridges' = r.pts
           /\ bridgeFault' = r.fault
    /\ pc' = "drawn"
    /\ UNCHANGED <<segments, cvars, hvars, tvars>>

BridgeNext == DrawBridgeIntersections

BridgeSpec == BridgeInit /\ [][BridgeNext]_vars

(***************************************************************************)
(* Plane geometry used to state the bridge properties (independent of the  *)
(* detection code).                                                        *)
(***************************************************************************)
Min2(a, b) == IF a <= b THEN a ELSE b
Max2(a, b) == IF a >= b THEN a ELSE b

SegA == segments[1]
SegB == segments[2]

Degenerate(s) == s[1] = s[2]

\* Twice the signed area of the triangle o, a, b.
Cross(o, a, b) == (a[1] - o[1]) * (b[2] - o[2]) - (a[2] - o[2]) * (b[1] - o[1])

Sign(n) == IF n < 0 THEN -1 ELSE IF n > 0 THEN 1 ELSE 0

InBox(p, s) ==
    /\ Min2(s[1][1], s[2][1]) <= p[1] /\ p[1] <= Max2(s[1][1], s[2][1])
    /\ Min2(s[1][2], s[2][2]) <= p[2] /\ p[2] <= Max2(s[1][2], s[2][2])

\* The integer point p lies on the closed segment s.
PointOnSegment(p, s) == Cross(s[1], s[2], p) = 0 /\ InBox(p, s)

\* The closed segments a and b have a point in common.
HaveCommonPoint(a, b) ==
    LET o1 == Sign(Cross(a[1], a[2], b[1]))
        o2 == Sign(Cross(a[1], a[2], b[2]))
        o3 == Sign(Cross(b[1], b[2], a[1]))
        o4 == Sign(Cross(b[1], b[2], a[2]))
    IN  \/ (o1 # o2 /\ o3 # o4)
        \/ PointOnSegment(b[1], a)
        \/ PointOnSegment(b[2], a)
        \/ PointOnSegment(a[1], b)
        \/ PointOnSegment(a[2], b)

\* The point P (a pair of fractions) lies on the closed segment s.
FracPointOnSegment(P, s) ==
    /\ (s[2][1] - s[1][1]) * (P[2][1] - s[1][2] * P[2][2]) * P[1][2]
         = (s[2][2] - s[1][2]) * (P[1][1] - s[1][1] * P[1][2]) * P[2][2]
    /\ FracLe(FracInt(Min2(s[1][1], s[2][1])), P[1])
    /\ FracLe(P[1], FracInt(Max2(s[1][1], s[2][1])))
    /\ FracLe(FracInt(Min2(s[1][2], s[2][2])), P[2])
    /\ FracLe(P[2], FracInt(Max2(s[1][2], s[2][2])))

Direction(s) == <<s[2][1] - s[1][1], s[2][2] - s[1][2]>>
DirCross(a, b) == Direction(a)[1] * Direction(b)[2] - Direction(a)[2] * Direction(b)[1]

Endpoints(s) == {s[1], s[2]}
Other(s, e) == IF s[1] = e THEN s[2] ELSE s[1]

\* a and b share exactly one endpoint e and no other point: the lines cross
\* once, or one segment is the single point e, or the two leave e in opposite
\* directions along one line.
JunctionOnly(a, b) ==
    /\ Cardinality(Endpoints(a) \cap Endpoints(b)) = 1
    /\ LET e == CHOOSE q \in Endpoints(a) \cap Endpoints(b) : TRUE
           u == Other(a, e)
           v == Other(b, e)
       IN  \/ DirCross(a, b) # 0
           \/ Degenerate(a)
           \/ Degenerate(b)
           \/ (u[1] - e[1]) * (v[1] - e[1]) + (u[2] - e[2]) * (v[2] - e[2]) < 0

SeqRange(s) == {s[n] : n \in 1..Len(s)}
NoDuplicates(s) == Cardinality(SeqRange(s)) = Len(s)

\* The middle two of four values: drop one smallest and one largest.
MidLoHi(v) ==
    LET i == CHOOSE i \in 1..4 : \A k \in 1..4 : v[i] <= v[k]
        j == CHOOSE j \in (1..4) \ {i} : \A k \in (1..4) \ {i} : v[j] >= v[k]
        rest == {v[k] : k \in (1..4) \ {i, j}}
    IN  [lo |-> CHOOSE m \in rest : \A r \in rest : m <= r,
         hi |-> CHOOSE m \in rest : \A r \in rest : m >= r]

Xs == <<SegA[1][1], SegA[2][1], SegB[1][1], SegB[2][1]>>
Ys == <<SegA[1][2], SegA[2][2], SegB[1][2], SegB[2][2]>>
OnCommonHorizontal == \A n \in 1..4 : Ys[n] = Ys[1]
OnCommonVertical == \A n \in 1..4 : Xs[n] = Xs[1]

\* The points the pair must yield when k runs over the set ks.
HorizontalPoints(ks) == {<<FracInt(k), FracInt(Ys[1])>> : k \in ks}
VerticalPoints(ks) == {<<FracInt(Xs[1]), FracInt(k)>> : k \in ks}

(***************************************************************************)
(* Bridge detection: the claims.                                           *)
(***************************************************************************)
\* C2 (as claimed): a pair of segments with no common point yields no bridge
\* point.
C2_NoBridgeWithoutCommonPoint ==
    (pc = "drawn" /\ ~HaveCommonPoint(SegA, SegB)) => bridges = <<>>

C4_OrderIndependent ==
    pc = "drawn" =>
        SeqRange(bridges) = SeqRange(DrawBridges(<<SegB, SegA>>).pts)

\* C5: two segments that share exactly one endpoint and have no other point
\* in common yield no bridge point.
C5_JunctionExcluded ==
    (pc = "drawn" /\ JunctionOnly(SegA, SegB)) => bridges = <<>>

\* A junction of two proper segments (one L-shaped, one straight) was examined.
C5_Witness ==
    /\ pc = "drawn"
    /\ JunctionOnly(SegA, SegB)
    /\ ~Degenerate(SegA) /\ ~Degenerate(SegB)
    /\ SegA[2] = SegB[1]
    /\ bridges = <<>>

\* The largest distance between two endpoint coordinates of the pair.
Span ==
    LET vs == SeqRange(Xs) \cup SeqRange(Ys)
    IN  (CHOOSE m \in vs : \A r \in vs : m >= r)
          - (CHOOSE m \in vs : \A r \in vs : m <= r)

\* C6: with a zero-length segment in either position the pass raises nothing
\* and the list is bounded by the extent of the coordinates.
C6_DegenerateSafe ==
    (pc = "drawn" /\ (Degenerate(SegA) \/ Degenerate(SegB))) =>
        /\ ~bridgeFault
        /\ Len(bridges) <= 2 * Span

\* A zero-length first segment beside a proper second one, points emitted.
C6_Witness ==
    /\ pc = "drawn"
    /\ Degenerate(SegA) /\ ~Degenerate(SegB)
    /\ ~bridgeFault
    /\ bridges # <<>>

\* C9: for a non-parallel pair, one point is emitted exactly when t1 and t2
\* lie in [0,1] and one of them lies strictly inside; the point is
\* (x0 + t1*(x1-x0), y0 + t1*(y1-y0)) and lies on both segments.
C9_NonParallelCrossing ==
    LET x0 == SegA[1][1]
        y0 == SegA[1][2]
        x1 == SegA[2][1]
        y1 == SegA[2][2]
        X0 == SegB[1][1]
        Y0 == SegB[1][2]
        X1 == SegB[2][1]
        Y1 == SegB[2][2]
        det == (x0 - x1) * (Y0 - Y1) - (y0 - y1) * (X0 - X1)
        n1 == (Y0 - Y1) * (x0 - X1) - (X0 - X1) * (y0 - Y1)
        n2 == (x0 - x1) * (Y0 - y1) - (y0 - y1) * (X0 - x1)
    IN  (pc = "drawn" /\ det # 0) =>
            LET t1 == Frac(n1, det)
                t2 == Frac(n2, det)
                in01 == /\ FracLe(<<0, 1>>, t1) /\ FracLe(t1, <<1, 1>>)
                        /\ FracLe(<<0, 1>>, t2) /\ FracLe(t2, <<1, 1>>)
                strict == \/ (FracLt(<<0, 1>>, t1) /\ FracLt(t1, <<1, 1>>))
                          \/ (FracLt(<<0, 1>>, t2) /\ FracLt(t2, <<1, 1>>))
                P == << Frac(x0 * det + n1 * (x1 - x0), det),
                        Frac(y0 * det + n1 * (y1 - y0), det) >>
            IN  IF in01 /\ strict
                THEN /\ bridges = <<P>>
                     /\ FracPointOnSegment(P, SegA)
                     /\ FracPointOnSegment(P, SegB)
                ELSE bridges = <<>>

\* The specification's diagonal X, after the pass: the single point (5,5).
C9_Witness ==
    /\ pc = "drawn"
    /\ segments = << <<<<0, 0>>, <<10, 10>>>>, <<<<0, 10>>, <<10, 0>>>> >>
    /\ bridges = << <<FracInt(5), FracInt(5)>> >>

====
